---- MODULE Spec2Model ----
(***************************************************************************)
(* xz-pixbuf-loader.c: a GdkPixbuf loader that decompresses an xz stream   *)
(* with liblzma into a GMemoryInputStream and hands that stream to         *)
(* gdk_pixbuf_new_from_stream.                                             *)
(*                                                                         *)
(* liblzma, GLib and GdkPixbuf are libraries the loader calls.  They are   *)
(* modelled at the call sites by their documented contracts:               *)
(*  - lzma_code is a streaming decoder of a small run-length container     *)
(*    (header byte, (count, value) pairs, end byte; streams may be         *)
(*    concatenated) that keeps lzma_code's calling contract: next_in /     *)
(*    avail_in / next_out / avail_out, LZMA_OK, LZMA_STREAM_END only for   *)
(*    LZMA_FINISH (LZMA_CONCATENATED), LZMA_BUF_ERROR on the second call   *)
(*    without progress, a sticky error state, LZMA_PROG_ERROR afterwards;  *)
(*  - malloc may fail;                                                     *)
(*  - gdk_pixbuf_new_from_stream either yields a pixbuf or fails.          *)
(***************************************************************************)
EXTENDS Integers, Sequences, FiniteSets, TLC

\* ---------------------------------------------------------------- bounds
MaxPlain == 3          \* longest plaintext of mixed bytes offered
MaxRun == 5            \* longest plaintext of one repeated byte offered
MaxAllocFail == 1      \* malloc failures injected per behaviour
XzBufferSize == 2      \* context->xz_buffer_size (1 << 16 in the source), scaled
BufferSize == 2        \* buffer_size of the one-shot load (1 << 20), scaled

\* ------------------------------------------------------------- constants
StreamMagic == 90      \* first byte of a stream (the "\xFD7zXZ" signature)

PlainBytes == {1, 2}
EndMark == 0           \* byte closing a stream (index and stream footer)
BadByte == 99          \* a byte that is valid nowhere in a stream

\* ------------------------------------------------------- sequence helpers
SeqsUpTo(S, n) == UNION {[1..k -> S] : k \in 0..n}

\* ---------------------------------------------------- the compressed form
\* Length of the run of equal bytes that starts p.
RECURSIVE RunLen(_)
RunLen(p) ==
    IF Len(p) <= 1 THEN Len(p)
    ELSE IF p[2] = p[1] THEN 1 + RunLen(Tail(p)) ELSE 1

RECURSIVE Runs(_)
Runs(p) ==
    IF p = <<>> THEN <<>>
    ELSE LET n == RunLen(p) IN <<n, p[1]>> \o Runs(SubSeq(p, n + 1, Len(p)))

\* One complete stream encoding p.
Compress(p) == <<StreamMagic>> \o Runs(p) \o <<EndMark>>

Plaintexts ==
    SeqsUpTo(PlainBytes, MaxPlain)
    \cup {[i \in 1..n |-> b] : n \in 1..MaxRun, b \in PlainBytes}

\* The inputs a caller may supply for plaintext p: the stream, two streams
\* concatenated, every proper prefix of the stream (a truncated file) and
\* the stream with one byte damaged.
ValidInputs(p) ==
    {[kind |-> "valid", xz |-> Compress(p)]}
    \cup {[kind |-> "valid",
           xz |-> Compress(SubSeq(p, 1, k)) \o Compress(SubSeq(p, k + 1, Len(p)))]
          : k \in 1..(Len(p) - 1)}

DamagedInputs(p) ==
    LET c == Compress(p) IN
    {[kind |-> "truncated", xz |-> SubSeq(c, 1, k)] : k \in 0..(Len(c) - 1)}
    \cup {[kind |-> "corrupt", xz |-> [c EXCEPT ![k] = BadByte]] : k \in 1..Len(c)}

Inputs(p) == ValidInputs(p) \cup DamagedInputs(p)

\* ------------------------------------------------- liblzma: lzma_code
\* The stream decoder proper (the coder behind lzma_code).  s holds the
\* coder's position (seq, cnt, val) and the caller's lzma_stream cursors:
\* ni/ai = next_in/avail_in, no/ao = next_out/avail_out, over the input
\* chunk buf and the output array out.  It runs until it needs input, the
\* output is full, the stream ends or the data is bad.
RECURSIVE StreamDecode(_, _, _)
StreamDecode(s, buf, action) ==
    CASE s.seq = "COPY" ->
           IF s.cnt = 0 THEN StreamDecode([s EXCEPT !.seq = "BLOCK"], buf, action)
           ELSE IF s.ao = 0 THEN [s |-> s, ret |-> "LZMA_OK"]
           ELSE StreamDecode([s EXCEPT !.out[s.no + 1] = s.val,
                                       !.no = @ + 1, !.ao = @ - 1,
                                       !.cnt = @ - 1], buf, action)
      [] s.seq = "PADDING" /\ s.ai = 0 ->
           \* LZMA_CONCATENATED: the end of the input is known only from
           \* LZMA_FINISH
           [s |-> s, ret |-> IF action = "LZMA_FINISH" THEN "LZMA_STREAM_END"
                             ELSE "LZMA_OK"]
      [] s.seq # "COPY" /\ s.seq # "PADDING" /\ s.ai = 0 ->
           [s |-> s, ret |-> "LZMA_OK"]
      [] OTHER ->
           LET b == buf[s.ni + 1]
               t == [s EXCEPT !.ni = @ + 1, !.ai = @ - 1]
           IN CASE s.seq \in {"HEADER", "PADDING"} ->
                     IF b = StreamMagic
                     THEN StreamDecode([t EXCEPT !.seq = "BLOCK"], buf, action)
                     ELSE [s |-> t, ret |-> IF s.seq = "HEADER"
                                            THEN "LZMA_FORMAT_ERROR"
                                            ELSE "LZMA_DATA_ERROR"]
                [] s.seq = "BLOCK" ->
                     IF b = EndMark
                     THEN StreamDecode([t EXCEPT !.seq = "PADDING"], buf, action)
                     ELSE IF b \in 1..MaxRun
                     THEN StreamDecode([t EXCEPT !.seq = "VALUE", !.cnt = b],
                                       buf, action)
                     ELSE [s |-> t, ret |-> "LZMA_DATA_ERROR"]
                [] s.seq = "VALUE" ->
                     IF b \in PlainBytes
                     THEN StreamDecode([t EXCEPT !.seq = "COPY", !.val = b],
                                       buf, action)
                     ELSE [s |-> t, ret |-> "LZMA_DATA_ERROR"]

\* A decoder as lzma_stream_decoder leaves it.
NewDecoder ==
    [sequence |-> "ISEQ_RUN", seq |-> "HEADER", cnt |-> 0, val |-> 0,
     allow_buf_error |-> FALSE, avail_in |-> 0]

\* lzma_code(strm, action): strm = [next_in, avail_in, next_out, avail_out],
\* d the decoder behind strm->internal (handle tells whether lzma_end has
\* released it), buf the bytes next_in points into, out the array next_out
\* points into.  Yields the new strm, d and out, and the return code.
LzmaCode(strm, d, handle, buf, out, action) ==
    LET with(r) == [strm |-> strm, d |-> d, out |-> out, ret |-> r] IN
    IF handle # "live" THEN with("LZMA_PROG_ERROR")
    ELSE IF d.sequence = "ISEQ_ERROR" THEN with("LZMA_PROG_ERROR")
    ELSE IF d.sequence = "ISEQ_END" THEN with("LZMA_STREAM_END")
    ELSE IF d.sequence = "ISEQ_FINISH"
            /\ (action # "LZMA_FINISH" \/ d.avail_in # strm.avail_in)
    THEN [strm |-> strm, d |-> [d EXCEPT !.sequence = "ISEQ_ERROR"],
          out |-> out, ret |-> "LZMA_PROG_ERROR"]
    ELSE
    LET r == StreamDecode([seq |-> d.seq, cnt |-> d.cnt, val |-> d.val,
                           ni |-> strm.next_in, ai |-> strm.avail_in,
                           no |-> strm.next_out, ao |-> strm.avail_out,
                           out |-> out], buf, action)
        s == r.s
        progressed == s.ai # strm.avail_in \/ s.ao # strm.avail_out
        ret == IF r.ret = "LZMA_OK" /\ ~progressed /\ d.allow_buf_error
               THEN "LZMA_BUF_ERROR" ELSE r.ret
        nseq == CASE r.ret = "LZMA_OK" ->
                       IF action = "LZMA_FINISH" THEN "ISEQ_FINISH" ELSE "ISEQ_RUN"
                  [] r.ret = "LZMA_STREAM_END" -> "ISEQ_END"
                  [] OTHER -> "ISEQ_ERROR"
    IN [strm |-> [next_in |-> s.ni, avail_in |-> s.ai,
                  next_out |-> s.no, avail_out |-> s.ao],
        d |-> [sequence |-> nseq, seq |-> s.seq, cnt |-> s.cnt, val |-> s.val,
               allow_buf_error |->
                   IF r.ret = "LZMA_OK" THEN ~progressed ELSE d.allow_buf_error,
               avail_in |-> s.ai],
        out |-> s.out,
        ret |-> ret]

\* ------------------------------------------------------------------ state
VARIABLES
    plain,           \* the plaintext the input was compressed from
    input,           \* [kind, xz]: the bytes the caller has to offer
    rest,            \* the bytes of input.xz not yet handed over or read
    file,            \* the FILE of the one-shot load: its eof and error flags
    pc,              \* the position of the running function, "idle" between calls
    op,              \* the entry point that is running or ran last
    context,         \* XZImageDecodeContext (the callbacks, size and pixbuf)
    lzstream,        \* the lzma_stream: next_in, avail_in, next_out, avail_out
    dec,             \* the decoder behind lzstream->internal
    buf,             \* the bytes next_in points into (the chunk, or xz_buffer)
    unxz_buffer,     \* the output array next_out points into
    memory_istream,  \* the GMemoryInputStream: the bytes of the chunks added
                     \* (data), the chunk added last, whether it is closed
    lzaction,        \* the lzma_action in use
    lzret,           \* what lzma_code returned last
    result,          \* what the last call returned to its caller
    log,             \* the callbacks invoked, in order
    heap,            \* which objects are allocated
    frees,           \* how often each object was released
    hist             \* what happened so far (for the properties only)

vars == <<plain, input, rest, file, pc, op, context, lzstream, dec, buf,
          unxz_buffer, memory_istream, lzaction, lzret, result, log, heap,
          frees, hist>>

NoPixbuf == [w |-> 0, h |-> 0]
Pixbufs == {[w |-> 1, h |-> 2], [w |-> 2, h |-> 1]}

NoCallbacks ==
    [size_func |-> "NULL", prepare_func |-> "NULL", updated_func |-> "NULL"]

\* The callbacks a caller may pass to begin_load.
CallbackSets ==
    {[size_func |-> "size_func", prepare_func |-> p, updated_func |-> u]
     : p \in {"prepare_func", "NULL"}, u \in {"updated_func", "NULL"}}

\* calloc(1, sizeof(XZImageDecodeContext))
NullContext ==
    [size_func |-> "NULL", prepare_func |-> "NULL", updated_func |-> "NULL",
     xz_buffer_size |-> 0, extra_context |-> "NULL", pixbuf |-> NoPixbuf]

\* LZMA_STREAM_INIT
NullStream == [next_in |-> 0, avail_in |-> 0, next_out |-> 0, avail_out |-> 0]

\* g_memory_input_stream_new: a stream of no chunks.  A reader sees the
\* chunks' bytes in the order they were added; the stream owns the chunks and
\* frees them when its last reference is dropped, not when it is closed.
NewMemoryStream ==
    [data |-> <<>>, last |-> <<>>, added |-> FALSE, closed |-> FALSE]

\* (mutant) the chunk is put before the chunks already there.
AddDataFront(stream, chunk) ==
    [stream EXCEPT !.data = chunk \o @, !.last = chunk, !.added = TRUE]

\* g_memory_input_stream_add_data(stream, chunk, size, free)
AddData(stream, chunk) ==
    [stream EXCEPT !.data = @ \o chunk, !.last = chunk, !.added = TRUE]

Init ==
    /\ \E p \in Plaintexts : \E i \in Inputs(p) :
          plain = p /\ input = i /\ rest = i.xz
    /\ file = [eof |-> FALSE, error |-> FALSE]
    /\ pc = "idle"
    /\ op = "none"
    /\ context = NullContext
    /\ lzstream = NullStream
    /\ dec = NewDecoder
    /\ buf = <<>>
    /\ unxz_buffer = <<>>
    /\ memory_istream = NewMemoryStream
    /\ lzaction = "LZMA_RUN"
    /\ lzret = "LZMA_OK"
    /\ result = "NONE"
    /\ log = <<>>
    /\ heap = [context |-> "none", lzstream |-> "none", xz_buffer |-> "none",
               unxz_buffer |-> "none", decoder |-> "none",
               memory_istream |-> "none"]
    /\ frees = [context |-> 0, lzstream |-> 0, xz_buffer |-> 0,
                unxz_buffer |-> 0, decoder |-> 0]
    /\ hist = [allocFail |-> 0, pushFailed |-> FALSE, decoded |-> FALSE,
               imgInput |-> <<>>, retAtDecode |-> "NONE", pixbuf |-> NoPixbuf,
               stopResult |-> "NONE", undefined |-> FALSE,
               given |-> NoCallbacks, emitted |-> <<>>, consumed |-> <<>>]

\* ------------------------------------------- gdk_pixbuf__begin_load_xz_image
BeginOutcomes == {"ok", "context", "lzstream", "decoder", "unxz_buffer"}

\* Lines 218-229: what the failure path leaves of the heap when step how
\* failed.  It frees what was allocated; a decoder that lzma_stream_decoder
\* had set up is not passed to lzma_end.
BeginFailureHeap(h, how) ==
    [h EXCEPT !.context = IF how = "context" THEN "none" ELSE "freed",
              !.lzstream = IF how \in {"context", "lzstream"}
                           THEN "none" ELSE "freed",
              !.decoder = IF how = "unxz_buffer" THEN "live" ELSE "none"]

BeginFailureFrees(f, how) ==
    [f EXCEPT !.context = IF how = "context" THEN 0 ELSE 1,
              !.lzstream = IF how \in {"context", "lzstream"} THEN 0 ELSE 1]

\* how: which step of the construction fails, if any.
BeginLoad(cb, how) ==
    /\ pc = "idle" /\ op = "none"
    /\ op' = "begin"
    /\ pc' = "idle"
    /\ IF how = "ok"
       THEN /\ context' = [size_func |-> cb.size_func,
                           prepare_func |-> cb.prepare_func,
                           updated_func |-> cb.updated_func,
                           xz_buffer_size |-> XzBufferSize,
                           extra_context |-> "extra_context",
                           pixbuf |-> NoPixbuf]
            /\ lzstream' = [next_in |-> 0, avail_in |-> 0,
                            next_out |-> 0, avail_out |-> XzBufferSize]
            /\ unxz_buffer' = [i \in 1..XzBufferSize |-> 0]
            /\ memory_istream' = NewMemoryStream
            /\ heap' = [heap EXCEPT !.context = "live", !.lzstream = "live",
                                    !.unxz_buffer = "live", !.decoder = "live",
                                    !.memory_istream = "live"]
            /\ result' = "context"
            /\ hist' = [hist EXCEPT !.given = cb]
            /\ UNCHANGED frees
       ELSE /\ result' = "NULL"
            /\ heap' = BeginFailureHeap(heap, how)
            /\ frees' = BeginFailureFrees(frees, how)
            /\ UNCHANGED <<context, lzstream, unxz_buffer, memory_istream, hist>>
    /\ UNCHANGED <<plain, input, rest, file, dec, buf, lzaction, lzret, log>>

\* --------------------------------------------------- _gdk_pixbuf__lzma_code
\* (mutant) every return code counts as success.
CodeSucceededAlways(r) == TRUE

\* Line 242: the return codes after which the loop copies the output out.
CodeSucceeded(r) == r \in {"LZMA_OK", "LZMA_STREAM_END"}

\* (mutant) the whole buffer is copied, whatever was written.
MemBufferWhole(out, size, avail_out) == SubSeq(out, 1, size)

\* Lines 243-249: the bytes memcpy takes out of unxz_buffer.
MemBuffer(out, size, avail_out) == SubSeq(out, 1, size - avail_out)

\* (mutant) only the room left is reset, the cursor stays.
ResetOutRoomOnly(strm, size) == [strm EXCEPT !.avail_out = size]

\* Lines 251-252: the output cursor is put back to the start of unxz_buffer.
ResetOut(strm, size) == [strm EXCEPT !.avail_out = size, !.next_out = 0]

\* (mutant) the loop makes one pass only.
CodeAgainNever(strm) == FALSE

\* Line 257: the loop's condition.
CodeAgain(strm) == strm.avail_in # 0

\* What one call of lzma_code, r, taken from the lzma_stream strm, wrote to
\* next_out and read from next_in (b: the bytes next_in points into).
Emitted(strm, r) == SubSeq(r.out, strm.next_out + 1, r.strm.next_out)

Consumed(strm, r, b) == SubSeq(b, strm.next_in + 1, r.strm.next_in)

\* The record of a call of lzma_code, for the properties.
Recorded(h, strm, r, b) ==
    [h EXCEPT !.emitted = @ \o Emitted(strm, r),
              !.consumed = @ \o Consumed(strm, r, b)]

\* Where _gdk_pixbuf__lzma_code returns to.
ReturnPc == IF op = "stop" THEN "stop_render" ELSE "idle"

\* gdk_pixbuf__load_xz_image_increment and lines 236-238: the caller hands
\* over the next n bytes it has.
LoadIncrement(n) ==
    /\ pc = "idle" /\ heap.context = "live"
    /\ n \in 1..Len(rest)
    /\ op' = "increment"
    /\ buf' = SubSeq(rest, 1, n)
    /\ rest' = SubSeq(rest, n + 1, Len(rest))
    /\ lzstream' = [lzstream EXCEPT !.next_in = 0, !.avail_in = n]
    /\ lzaction' = "LZMA_RUN"
    /\ pc' = "lzma_code"
    /\ UNCHANGED <<plain, input, file, context, dec, unxz_buffer, memory_istream,
                   lzret, result, log, heap, frees, hist>>

\* Lines 240-263: one pass of the do-while loop.  alloc: whether malloc
\* yields a buffer (it is reached only after a successful lzma_code).
LzmaCodeLoop(alloc) ==
    /\ pc = "lzma_code"
    /\ alloc \/ hist.allocFail < MaxAllocFail
    /\ LET r == LzmaCode(lzstream, dec, heap.decoder, buf, unxz_buffer, lzaction)
       IN /\ CodeSucceeded(r.ret) \/ alloc
          /\ lzret' = r.ret
          /\ dec' = r.d
          /\ unxz_buffer' = r.out
          /\ IF ~CodeSucceeded(r.ret) \/ ~alloc
             THEN /\ lzstream' = r.strm
                  /\ UNCHANGED memory_istream
                  /\ result' = "FALSE"
                  /\ pc' = ReturnPc
                  /\ hist' = [Recorded(hist, lzstream, r, buf) EXCEPT
                         !.allocFail = IF CodeSucceeded(r.ret) THEN @ + 1 ELSE @,
                         !.pushFailed = @ \/ op = "increment"]
             ELSE /\ memory_istream' =
                         AddData(memory_istream,
                                 MemBuffer(r.out, context.xz_buffer_size,
                                           r.strm.avail_out))
                  /\ lzstream' = ResetOut(r.strm, context.xz_buffer_size)
                  /\ IF CodeAgain(r.strm)
                     THEN pc' = "lzma_code" /\ UNCHANGED result
                     ELSE pc' = ReturnPc /\ result' = "TRUE"
                  /\ hist' = Recorded(hist, lzstream, r, buf)
    \* the chunk is the caller's again once the function returns
    /\ buf' = IF pc' = "lzma_code" THEN buf ELSE <<>>
    /\ UNCHANGED <<plain, input, rest, file, op, context, lzaction, log, heap,
                   frees>>

\* ------------------------------------------ gdk_pixbuf__stop_load_xz_image
\* Lines 269-272: the final run, with no input and LZMA_FINISH.  The caller
\* stops when it has no more bytes, or gives up after a failed increment.
StopLoad ==
    /\ pc = "idle" /\ heap.context = "live"
    /\ rest = <<>> \/ result = "FALSE"
    /\ op' = "stop"
    /\ buf' = <<>>
    /\ lzstream' = [lzstream EXCEPT !.next_in = 0, !.avail_in = 0]
    /\ lzaction' = "LZMA_FINISH"
    /\ pc' = "lzma_code"
    /\ UNCHANGED <<plain, input, rest, file, context, dec, unxz_buffer,
                   memory_istream, lzret, result, log, heap, frees, hist>>

\* gdk_pixbuf_new_from_stream: the pixbufs it may make of the bytes it reads
\* (NoPixbuf: it fails).  Nothing is an image of no bytes.
NewFromStream(bytes) ==
    IF bytes = <<>> THEN {NoPixbuf} ELSE Pixbufs \cup {NoPixbuf}

\* (mutant) updated_func is given the height for the width.
CallbacksSwapped(ctx, pixbuf) ==
    (IF pixbuf # NoPixbuf /\ ctx.prepare_func # "NULL"
     THEN <<[f |-> ctx.prepare_func, x |-> 0, y |-> 0, w |-> 0, h |-> 0,
             data |-> ctx.extra_context]>>
     ELSE <<>>)
    \o
    (IF pixbuf # NoPixbuf /\ ctx.updated_func # "NULL"
     THEN <<[f |-> ctx.updated_func, x |-> 0, y |-> 0, w |-> pixbuf.h,
             h |-> pixbuf.w, data |-> ctx.extra_context]>>
     ELSE <<>>)

\* Lines 280-285: the callbacks stop_load invokes for pixbuf.
Callbacks(ctx, pixbuf) ==
    (IF pixbuf # NoPixbuf /\ ctx.prepare_func # "NULL"
     THEN <<[f |-> ctx.prepare_func, x |-> 0, y |-> 0, w |-> 0, h |-> 0,
             data |-> ctx.extra_context]>>
     ELSE <<>>)
    \o
    (IF pixbuf # NoPixbuf /\ ctx.updated_func # "NULL"
     THEN <<[f |-> ctx.updated_func, x |-> 0, y |-> 0, w |-> pixbuf.w,
             h |-> pixbuf.h, data |-> ctx.extra_context]>>
     ELSE <<>>)

\* (mutant) lzma_end is left out.
StopFreesNoEnd(f) ==
    [f EXCEPT !.lzstream = @ + 1, !.unxz_buffer = @ + 1, !.context = @ + 1]

\* Line 273 and lines 288-290: what stop_load releases.
StopFrees(f) ==
    [f EXCEPT !.decoder = @ + 1, !.lzstream = @ + 1, !.unxz_buffer = @ + 1,
              !.context = @ + 1]

StopHeap(h) ==
    [h EXCEPT !.decoder = "freed", !.lzstream = "freed",
              !.unxz_buffer = "freed", !.context = "freed"]

\* Lines 276-277: stop_load's return value, given _gdk_pixbuf__lzma_code's.
StopResult(ret, pixbuf) == IF pixbuf = NoPixbuf THEN "FALSE" ELSE ret

\* Lines 273-291: after the final run.
StopRender(pixbuf) ==
    /\ pc = "stop_render"
    /\ pixbuf \in NewFromStream(memory_istream.data)
    /\ hist' = [hist EXCEPT !.decoded = TRUE,
                            !.imgInput = memory_istream.data,
                            !.retAtDecode = result,
                            !.pixbuf = pixbuf,
                            !.stopResult = StopResult(result, pixbuf)]
    /\ result' = StopResult(result, pixbuf)
    /\ memory_istream' = [memory_istream EXCEPT !.closed = TRUE]
    /\ log' = log \o Callbacks(context, pixbuf)
    /\ frees' = StopFrees(frees)
    /\ heap' = StopHeap(heap)
    \* freed memory holds nothing that may be read
    /\ context' = NullContext
    /\ lzstream' = NullStream
    /\ unxz_buffer' = <<>>
    /\ pc' = "idle"
    /\ UNCHANGED <<plain, input, rest, file, op, dec, buf, lzaction, lzret>>

\* A second call of stop_load reads the context the first call freed: the
\* behaviour is undefined.  The call may crash or return either value.
StopLoadAgain(outcome) ==
    /\ pc = "idle" /\ op = "stop" /\ heap.context = "freed"
    /\ result' = outcome
    /\ hist' = [hist EXCEPT !.undefined = TRUE]
    /\ pc' = "undefined"
    /\ UNCHANGED <<plain, input, rest, file, op, context, lzstream, dec, buf,
                   unxz_buffer, memory_istream, lzaction, lzret, log, heap,
                   frees>>

\* ------------------------------------------------ gdk_pixbuf__load_xz_image
LoadOutcomes == {"ok", "lzstream", "decoder", "xz_buffer", "unxz_buffer", "buffers"}

\* Lines 158-168: the failure path frees the buffers and the lzma_stream it
\* finds allocated and closes the memory stream; it does not call lzma_end.
LoadFailureHeap(h) ==
    [h EXCEPT !.xz_buffer = IF @ = "live" THEN "freed" ELSE @,
              !.unxz_buffer = IF @ = "live" THEN "freed" ELSE @,
              !.lzstream = IF @ = "live" THEN "freed" ELSE @]

LoadFailureFrees(h, f) ==
    [f EXCEPT !.xz_buffer = IF h.xz_buffer = "live" THEN @ + 1 ELSE @,
              !.unxz_buffer = IF h.unxz_buffer = "live" THEN @ + 1 ELSE @,
              !.lzstream = IF h.lzstream = "live" THEN @ + 1 ELSE @]

\* goto failure with the heap as h and the stream as ms.
LoadFailure(h, ms) ==
    /\ heap' = LoadFailureHeap(h)
    /\ frees' = LoadFailureFrees(h, frees)
    /\ memory_istream' =
          IF h.memory_istream = "live" THEN [ms EXCEPT !.closed = TRUE] ELSE ms
    /\ result' = "NULL"
    /\ pc' = "idle"

\* Lines 63-101: the set-up.  how: which step fails, if any.
Load(how) ==
    /\ pc = "idle" /\ op = "none"
    /\ op' = "load"
    /\ IF how = "ok"
       THEN /\ heap' = [heap EXCEPT !.lzstream = "live", !.decoder = "live",
                                    !.xz_buffer = "live", !.unxz_buffer = "live",
                                    !.memory_istream = "live"]
            /\ lzstream' = [next_in |-> 0, avail_in |-> 0,
                            next_out |-> 0, avail_out |-> BufferSize]
            /\ unxz_buffer' = [i \in 1..BufferSize |-> 0]
            /\ pc' = "load_read"
            /\ UNCHANGED <<frees, memory_istream, result>>
       ELSE /\ LoadFailure(
                  [heap EXCEPT
                     !.lzstream = IF how = "lzstream" THEN "none" ELSE "live",
                     !.decoder = IF how \in {"lzstream", "decoder"}
                                 THEN "none" ELSE "live",
                     !.xz_buffer = IF how = "unxz_buffer" THEN "live" ELSE "none",
                     !.unxz_buffer = IF how = "xz_buffer" THEN "live" ELSE "none"],
                  memory_istream)
            /\ UNCHANGED <<lzstream, unxz_buffer>>
    /\ lzaction' = "LZMA_RUN"
    /\ UNCHANGED <<plain, input, rest, file, context, dec, buf, lzret, log, hist>>

\* fread(xz_buffer, 1, buffer_size, file) on a file that holds bytes: what is
\* read, and whether the end-of-file flag is set (a read that comes short).
Fread(bytes, size) ==
    [read |-> SubSeq(bytes, 1, IF Len(bytes) < size THEN Len(bytes) ELSE size),
     left |-> SubSeq(bytes, size + 1, Len(bytes)),
     eof |-> Len(bytes) < size]

\* (mutant) the file is read on every pass until it ends.
LoadRefillsEveryPass(strm, f) == ~f.eof

\* Line 105: when the loop reads the file again.
LoadRefills(strm, f) == strm.avail_in = 0 /\ ~f.eof

\* (mutant) the end of the file does not change the lzma_action.
LoadActionKept(eof, action) == action

\* Lines 115-117: the lzma_action after a read that left feof(file) as eof.
LoadAction(eof, action) == IF eof THEN "LZMA_FINISH" ELSE action

\* Lines 105-118: the head of the loop.  err: the read fails.
LoadRead(err) ==
    /\ pc = "load_read"
    /\ IF LoadRefills(lzstream, file)
       THEN IF err
            THEN /\ file' = [file EXCEPT !.error = TRUE]
                 /\ LoadFailure(heap, memory_istream)
                 /\ UNCHANGED <<rest, buf, lzstream, lzaction>>
            ELSE LET r == Fread(rest, BufferSize) IN
                 /\ buf' = r.read
                 /\ rest' = r.left
                 /\ file' = [file EXCEPT !.eof = r.eof]
                 /\ lzstream' = [lzstream EXCEPT !.next_in = 0,
                                                 !.avail_in = Len(r.read)]
                 /\ lzaction' = LoadAction(r.eof, lzaction)
                 /\ pc' = "load_code"
                 /\ UNCHANGED <<heap, frees, memory_istream, result>>
       ELSE /\ ~err
            /\ pc' = "load_code"
            /\ UNCHANGED <<rest, buf, file, lzstream, lzaction, heap, frees,
                           memory_istream, result>>
    /\ UNCHANGED <<plain, input, op, context, dec, unxz_buffer, lzret, log, hist>>

\* (mutant) the output is copied out only when the buffer is full.
LoadDrainsWhenFull(strm, ret) == strm.avail_out = 0

\* Line 122: when the loop copies the output out.
LoadDrains(strm, ret) == strm.avail_out = 0 \/ ret = "LZMA_STREAM_END"

\* (mutant) only the room left is reset, the cursor stays.
LoadResetOutRoomOnly(strm, size) == [strm EXCEPT !.avail_out = size]

\* Lines 131-132: the output cursor is put back to the start of unxz_buffer.
LoadResetOut(strm, size) == [strm EXCEPT !.next_out = 0, !.avail_out = size]

\* Lines 120-140: the rest of the loop's body.  alloc: whether malloc yields
\* a buffer.
LoadCode(alloc) ==
    /\ pc = "load_code"
    /\ alloc \/ hist.allocFail < MaxAllocFail
    /\ LET r == LzmaCode(lzstream, dec, heap.decoder, buf, unxz_buffer, lzaction)
           drains == LoadDrains(r.strm, r.ret)
       IN /\ drains \/ alloc
          /\ lzret' = r.ret
          /\ dec' = r.d
          /\ unxz_buffer' = r.out
          /\ IF drains /\ ~alloc
             THEN /\ lzstream' = r.strm
                  /\ LoadFailure(heap, memory_istream)
                  /\ hist' = [Recorded(hist, lzstream, r, buf) EXCEPT
                                 !.allocFail = @ + 1]
             ELSE LET ms == IF drains
                            THEN AddData(memory_istream,
                                         MemBuffer(r.out, BufferSize,
                                                   r.strm.avail_out))
                            ELSE memory_istream
                  IN /\ lzstream' = IF drains
                                    THEN LoadResetOut(r.strm, BufferSize)
                                    ELSE r.strm
                     /\ hist' = Recorded(hist, lzstream, r, buf)
                     /\ IF r.ret = "LZMA_OK"
                        THEN /\ memory_istream' = ms
                             /\ pc' = "load_read"
                             /\ UNCHANGED <<heap, frees, result>>
                        ELSE IF r.ret = "LZMA_STREAM_END"
                        THEN /\ memory_istream' = ms
                             /\ pc' = "load_render"
                             /\ UNCHANGED <<heap, frees, result>>
                        ELSE LoadFailure(heap, ms)
    /\ UNCHANGED <<plain, input, rest, file, op, context, buf, lzaction, log>>

\* Lines 151-154: what the successful return releases.
LoadFrees(f) ==
    [f EXCEPT !.decoder = @ + 1, !.lzstream = @ + 1, !.xz_buffer = @ + 1,
              !.unxz_buffer = @ + 1]

LoadHeap(h) ==
    [h EXCEPT !.decoder = "freed", !.lzstream = "freed", !.xz_buffer = "freed",
              !.unxz_buffer = "freed"]

\* Lines 144-156: the image decode and the return.
LoadRender(pixbuf) ==
    /\ pc = "load_render"
    /\ pixbuf \in NewFromStream(memory_istream.data)
    /\ hist' = [hist EXCEPT !.decoded = TRUE,
                            !.imgInput = memory_istream.data,
                            !.retAtDecode = "TRUE",
                            !.pixbuf = pixbuf]
    /\ IF pixbuf = NoPixbuf
       THEN LoadFailure(heap, memory_istream)
       ELSE /\ memory_istream' = [memory_istream EXCEPT !.closed = TRUE]
            /\ frees' = LoadFrees(frees)
            /\ heap' = LoadHeap(heap)
            /\ result' = "pixbuf"
            /\ pc' = "idle"
    /\ UNCHANGED <<plain, input, rest, file, op, context, lzstream, dec, buf,
                   unxz_buffer, lzaction, lzret, log>>

Next ==
    \/ \E cb \in CallbackSets, how \in BeginOutcomes : BeginLoad(cb, how)
    \/ \E n \in 1..(2 * MaxPlain + MaxRun + 4) : LoadIncrement(n)
    \/ \E alloc \in BOOLEAN : LzmaCodeLoop(alloc)
    \/ StopLoad
    \/ \E pixbuf \in Pixbufs \cup {NoPixbuf} : StopRender(pixbuf)
    \/ \E outcome \in {"TRUE", "FALSE", "SIGSEGV"} : StopLoadAgain(outcome)
    \/ \E how \in LoadOutcomes : Load(how)
    \/ \E err \in BOOLEAN : LoadRead(err)
    \/ \E alloc \in BOOLEAN : LoadCode(alloc)
    \/ \E pixbuf \in Pixbufs \cup {NoPixbuf} : LoadRender(pixbuf)

Spec == Init /\ [][Next]_vars

\* ------------------------------------------------------------- properties
\* The incremental session has run stop_load to its return.
Stopped == op = "stop" /\ pc = "idle"

\* C1: incremental round trip and chunking invariance.  When every byte of a
\* valid stream has been pushed, in whatever split, and no malloc failed, the
\* bytes gdk_pixbuf_new_from_stream is given by stop_load are the plaintext;
\* so any two splits of the stream give the same bytes.
C1_IncrementalRoundTrip ==
    (op = "stop" /\ hist.decoded /\ input.kind = "valid" /\ rest = <<>>
        /\ hist.allocFail = 0)
    => hist.imgInput = plain

C1_Witness ==
    /\ op = "stop" /\ hist.decoded /\ input.kind = "valid" /\ rest = <<>>
    /\ hist.allocFail = 0
    /\ Len(plain) > 2 * XzBufferSize
    /\ hist.imgInput = plain

C3_FinishDrivesToStreamEnd ==
    (op = "stop" /\ hist.decoded /\ hist.allocFail = 0)
    => (lzret = "LZMA_STREAM_END" \/ hist.retAtDecode = "FALSE")

\* C4: no partial image.  If a load_increment failed or the final run of
\* stop_load failed, no callback is invoked and stop_load returns FALSE; and
\* callbacks are invoked only after the decoder reported LZMA_STREAM_END.
\* Stated for the sessions in which no malloc fails (the decode errors).
C4_NoPartialImage ==
    (op = "stop" /\ hist.decoded /\ hist.allocFail = 0)
    => /\ (hist.pushFailed \/ hist.retAtDecode = "FALSE")
            => (log = <<>> /\ hist.stopResult = "FALSE")
       /\ log # <<>> => lzret = "LZMA_STREAM_END"

\* C5: the callback protocol.  Nothing is invoked before stop_load's image
\* decode, nothing when it fails, and size_func never; when it succeeds, each
\* of prepare_func and updated_func that begin_load was given is invoked
\* exactly once, prepare_func first, updated_func with the region
\* (0, 0, width, height), both with the extra_context of begin_load.
CallsOf(f) == {i \in 1..Len(log) : log[i].f = f}

C5_CallbackProtocol ==
    /\ \A i \in 1..Len(log) :
          /\ log[i].f \in {"prepare_func", "updated_func"}
          /\ log[i].data = "extra_context"
    /\ (~(op = "stop" /\ hist.decoded) \/ hist.pixbuf = NoPixbuf) => log = <<>>
    /\ (op = "stop" /\ hist.decoded /\ hist.pixbuf # NoPixbuf) =>
          /\ Cardinality(CallsOf("prepare_func")) =
                IF hist.given.prepare_func = "NULL" THEN 0 ELSE 1
          /\ Cardinality(CallsOf("updated_func")) =
                IF hist.given.updated_func = "NULL" THEN 0 ELSE 1
          /\ \A i \in CallsOf("prepare_func"), j \in CallsOf("updated_func") : i < j
          /\ \A j \in CallsOf("updated_func") :
                /\ log[j].x = 0 /\ log[j].y = 0
                /\ log[j].w = hist.pixbuf.w /\ log[j].h = hist.pixbuf.h

C5_Witness ==
    /\ Stopped /\ hist.pixbuf # NoPixbuf
    /\ hist.given.prepare_func # "NULL" /\ hist.given.updated_func # "NULL"
    /\ Len(log) = 2

C7_FailedIsTerminal ==
    (hist.pushFailed /\ hist.allocFail = 0) =>
        /\ heap.decoder # "live"
        /\ pc # "lzma_code"
        /\ ~hist.decoded

\* C8: idempotent finish.  A second stop_load returns what the first
\* returned and touches nothing the first released.
C8_IdempotentFinish ==
    pc = "undefined" => (result = hist.stopResult /\ ~hist.undefined)

\* C9: the decoder's lifetime in a session that begin_load opened.  While
\* the session runs the decoder is live whenever lzma_code is about to be
\* called and has not been released; when stop_load has returned it has been
\* released exactly once.
C9_DecoderReleasedOnce ==
    /\ (pc = "lzma_code") => (heap.decoder = "live" /\ frees.decoder = 0)
    /\ (op \in {"increment", "stop"} /\ ~Stopped /\ pc # "undefined")
          => frees.decoder = 0
    /\ Stopped => (heap.decoder = "freed" /\ frees.decoder = 1)

C9_Witness ==
    Stopped /\ hist.pushFailed /\ frees.decoder = 1

\* C10: teardown through stop_load.  When stop_load has returned, the output
\* buffer, the lzma_stream and the context have each been freed exactly once
\* and no buffer of the session is still allocated: the chunks that hold the
\* decompressed bytes have been freed with the memory stream that owns them.
C10_TeardownThroughFinish ==
    (Stopped /\ hist.allocFail = 0) =>
        /\ frees.unxz_buffer = 1 /\ frees.lzstream = 1 /\ frees.context = 1
        /\ memory_istream.data # <<>> => heap.memory_istream # "live"

\* C11: one-shot failure cleanup.  When gdk_pixbuf__load_xz_image has
\* returned NULL, everything it had acquired has been released as the
\* successful return releases it: the two buffers, the lzma_stream and the
\* decoder behind it (lzma_end).
C11_OneShotFailureCleanup ==
    (op = "load" /\ pc = "idle" /\ result = "NULL") =>
        /\ heap.xz_buffer # "live" /\ heap.unxz_buffer # "live"
        /\ heap.lzstream # "live"
        /\ heap.decoder # "live"

\* C12: begin_load is all or nothing.  When it fails it returns NULL and
\* leaves nothing allocated, the decoder that lzma_stream_decoder had set up
\* included; when it succeeds the context, the lzma_stream, the decoder, the
\* output buffer and the memory stream are all there.
C12_BeginAllOrNothing ==
    op = "begin" =>
        /\ result \in {"NULL", "context"}
        /\ result = "NULL" =>
              /\ heap.context # "live" /\ heap.lzstream # "live"
              /\ heap.unxz_buffer # "live" /\ heap.memory_istream # "live"
              /\ heap.decoder # "live"
        /\ result = "context" =>
              /\ heap.context = "live" /\ heap.lzstream = "live"
              /\ heap.unxz_buffer = "live" /\ heap.memory_istream = "live"
              /\ heap.decoder = "live"

\* The size of the output buffer of the call that is running: buffer_size in
\* the one-shot load, context->xz_buffer_size in the incremental session.
Capacity == IF op = "load" THEN BufferSize ELSE context.xz_buffer_size

\* C13: the output buffer's cursors.  While unxz_buffer is allocated, in the
\* incremental session and in the one-shot load, its size is the one it was
\* allocated with, next_out lies within it, and next_out and avail_out add
\* up to the size (so a reset, which zeroes the one, restores the other).
C13_ScratchInvariant ==
    heap.unxz_buffer = "live" =>
        /\ Capacity = (IF op = "load" THEN BufferSize ELSE XzBufferSize)
        /\ Len(unxz_buffer) = Capacity
        /\ lzstream.next_out \in 0..Capacity
        /\ lzstream.next_out + lzstream.avail_out = Capacity

C13_Witness ==
    /\ op = "load" /\ pc = "load_read" /\ heap.unxz_buffer = "live"
    /\ memory_istream.added
    /\ 0 < lzstream.next_out /\ lzstream.next_out < BufferSize

\* The bytes lzma_code has written to unxz_buffer since the last reset.
Undrained == SubSeq(unxz_buffer, 1, lzstream.next_out)

\* C14: drain exactness and order.  While the buffers are allocated, the
\* bytes of the chunks added to memory_istream, in the order they were added,
\* followed by the bytes written to unxz_buffer since the last reset, are the
\* bytes lzma_code has emitted so far: each chunk held exactly the bytes
\* written since the reset before it, none lost, doubled or out of order.
C14_DrainExactness ==
    (heap.memory_istream = "live" /\ heap.unxz_buffer = "live") =>
        /\ memory_istream.data \o Undrained = hist.emitted
        /\ Len(memory_istream.last) <= Capacity
        /\ memory_istream.last =
              SubSeq(memory_istream.data,
                     Len(memory_istream.data) - Len(memory_istream.last) + 1,
                     Len(memory_istream.data))

C14_Witness ==
    /\ op = "increment" /\ hist.pushFailed /\ heap.unxz_buffer = "live"
    /\ Len(memory_istream.data) >= XzBufferSize
    /\ Undrained # <<>>
    /\ memory_istream.data \o Undrained = hist.emitted

\* C15: no empty chunk.  Whenever a chunk has been added to memory_istream,
\* in the incremental session or in the one-shot load, it holds at least one
\* byte: a call of lzma_code that wrote nothing adds nothing.
C15_NoEmptySegments ==
    memory_istream.added => memory_istream.last # <<>>

\* The bytes of the input the caller has handed over so far.
HandedOver == SubSeq(input.xz, 1, Len(input.xz) - Len(rest))

\* C16: load_increment consumes its whole chunk.  While the loop runs, the
\* bytes next_in points into are the chunk of this call (the bytes handed
\* over last; none for stop_load) and next_in and avail_in add up to its
\* size, so lzma_code reads no byte of an earlier chunk; and as long as no
\* load_increment has failed, what lzma_code has read is a prefix of what was
\* handed over, and all of it, with avail_in 0, whenever load_increment has
\* returned TRUE.
C16_PushConsumesChunk ==
    op \in {"increment", "stop"} =>
        /\ pc = "lzma_code" =>
              /\ lzstream.next_in + lzstream.avail_in = Len(buf)
              /\ op = "stop" => buf = <<>>
              /\ buf = SubSeq(HandedOver, Len(HandedOver) - Len(buf) + 1,
                              Len(HandedOver))
        /\ ~hist.pushFailed =>
              /\ Len(hist.consumed) <= Len(HandedOver)
              /\ hist.consumed = SubSeq(HandedOver, 1, Len(hist.consumed))
        /\ (op = "increment" /\ pc = "idle" /\ result = "TRUE"
                /\ ~hist.pushFailed) =>
              /\ lzstream.avail_in = 0
              /\ hist.consumed = HandedOver
        /\ (op = "increment" /\ pc = "idle" /\ result = "TRUE") =>
              lzstream.avail_in = 0

C16_Witness ==
    /\ op = "increment" /\ pc = "idle" /\ result = "TRUE"
    /\ lzstream.avail_in = 0
    /\ Len(memory_istream.data) > XzBufferSize
    /\ rest # <<>>
    /\ hist.consumed = HandedOver

\* The one-shot load's lzma_action follows the file: LZMA_FINISH exactly when
\* the file has reported its end, and by then all of it has been read; the
\* image decode is reached only on LZMA_STREAM_END.
LoadModeFollowsFile ==
    op = "load" =>
        /\ (lzaction = "LZMA_FINISH") <=> file.eof
        /\ file.eof => rest = <<>>
        /\ pc = "load_render" => lzret = "LZMA_STREAM_END"

\* Once the file has reported its end, the lzma_action stays LZMA_FINISH and
\* the file is not read again (xz_buffer keeps its bytes).
LoadModeStays ==
    (op = "load" /\ file.eof) =>
        /\ lzaction' = "LZMA_FINISH"
        /\ file' = file /\ rest' = rest /\ buf' = buf

\* C17: one-shot mode selection.  lzma_code is called with LZMA_RUN until the
\* file has reported its end and with LZMA_FINISH from the first call after
\* that; the mode never goes back, the file is not read again, and the loop
\* leaves for the image decode only on LZMA_STREAM_END.
C17_OneShotModeSelection == [](LoadModeFollowsFile) /\ [][LoadModeStays]_vars

C17_Witness ==
    /\ op = "load" /\ pc = "load_code" /\ input.kind = "valid"
    /\ lzaction = "LZMA_FINISH" /\ file.eof
    /\ lzstream.avail_in = 0
    /\ Len(input.xz) % BufferSize = 0

\* The bytes of the chunk or the file that lzma_code has not read yet.
Unread == Len(rest) + lzstream.avail_in

\* A step that stays inside the loop of the call that is running.
LoopPass ==
    /\ pc \in {"lzma_code", "load_read", "load_code"}
    /\ pc' \in {"lzma_code", "load_read", "load_code"}

\* The step brings the loop nearer its end, in this order of weight: input
\* is read, output is written, the file reports its end, lzma_code has made
\* its one call without progress (the next is LZMA_BUF_ERROR), the head of
\* the one-shot loop has gone on to its call of lzma_code.
Progresses ==
    LET in == Unread' = Unread
        out == in /\ hist'.emitted = hist.emitted
        eof == out /\ file'.eof = file.eof
        idle == eof /\ dec'.allow_buf_error = dec.allow_buf_error
    IN \/ Unread' < Unread
       \/ in /\ Len(hist'.emitted) > Len(hist.emitted)
       \/ out /\ ~file.eof /\ file'.eof
       \/ eof /\ ~dec.allow_buf_error /\ dec'.allow_buf_error
       \/ idle /\ pc = "load_read" /\ pc' = "load_code"

\* What a stream can be decompressed to is bounded by its length.
EmittedBounded == Len(hist.emitted) <= MaxRun * Len(input.xz)

\* C18: termination.  lzma_code, on every call, reads input, writes output,
\* ends the stream or reports an error (LZMA_BUF_ERROR on the second call
\* that does neither).  With that decoder every call that has been entered
\* (load_increment, stop_load, the one-shot load) returns, whether the stream
\* is valid, truncated or corrupt: every pass of its loop brings a bounded
\* measure nearer its end, and the image decode is followed by the return.
C18_Termination ==
    /\ [](EmittedBounded)
    /\ [][/\ LoopPass => Progresses
          /\ pc \in {"stop_render", "load_render"} => pc' = "idle"]_vars

C18_Witness ==
    /\ pc = "idle" /\ op = "load"
    /\ input.kind = "truncated" /\ input.xz # <<>> /\ rest = <<>>
    /\ lzret = "LZMA_BUF_ERROR"

\* C19: nothing stays undrained between the calls of an incremental
\* session.  When begin_load has returned a context, and whenever
\* load_increment has returned TRUE, next_out is at the start of unxz_buffer
\* with the whole buffer free, and every byte lzma_code has written is in
\* memory_istream.
C19_NoUndrainedBetweenCalls ==
    (pc = "idle" /\ ((op = "begin" /\ result = "context")
                        \/ (op = "increment" /\ result = "TRUE"))) =>
        /\ lzstream.next_out = 0
        /\ lzstream.avail_out = XzBufferSize
        /\ memory_istream.data = hist.emitted

C19_Witness ==
    /\ pc = "idle" /\ op = "increment" /\ result = "TRUE"
    /\ Len(memory_istream.last) \in 1..(XzBufferSize - 1)
    /\ Len(memory_istream.data) > XzBufferSize
    /\ lzstream.next_out = 0
    /\ memory_istream.data = hist.emitted

\* The bytes of xz_buffer that lzma_code has not read yet.
Unconsumed == SubSeq(buf, lzstream.next_in + 1, Len(buf))

\* C20: the one-shot load reads the file again only when lzma_code has read
\* all of xz_buffer.  At every point of the call the bytes lzma_code has
\* read, the bytes of xz_buffer it has not read yet and the bytes still in
\* the file make up the file, in order; on the way to the image decode
\* lzma_code has read exactly the file.
C20_OneShotConsumesSource ==
    op = "load" =>
        /\ lzstream.next_in + lzstream.avail_in = Len(buf)
        /\ hist.consumed \o Unconsumed \o rest = input.xz
        /\ pc = "load_render" => hist.consumed = input.xz

C20_Witness ==
    /\ op = "load" /\ pc = "load_read"
    /\ lzstream.avail_in > 0 /\ rest # <<>>
    /\ memory_istream.added
    /\ hist.consumed \o Unconsumed \o rest = input.xz

====
